---------------------------- MODULE Spec2Model ----------------------------
(***************************************************************************)
(* A model of facedetection.py: the three detection providers, their       *)
(* result factories (response -> list of Coord) and the AkamaiCrop         *)
(* encoder (list of Coord -> bounding rectangle -> crop URL).              *)
(*                                                                         *)
(* A Python str is a sequence of one-character strings, so that formatting *)
(* numbers, percent-encoding and URL parsing are computed, not assumed.    *)
(* An optional value (None or a value, a dict key that may be missing) is  *)
(* a sequence of length 0 or 1.                                            *)
(***************************************************************************)
EXTENDS Integers, Sequences, FiniteSets, TLC

VARIABLES
    pc,        \* position of the caller's call chain
    call,      \* arguments of the invocation in progress (or of the last one)
    requests,  \* outbound HTTP/API requests issued by the current invocation
    logged,    \* logger.error records emitted by the current invocation
    result,    \* the IDetectionResult last returned: <<>> or <<record>>
    rect,      \* (start, end) last computed by create_rect: <<>> or <<record>>
    url,       \* the string last returned by the encoder: <<>> or <<str>>
    error      \* the exception last raised: <<>> or <<record>>

vars == <<pc, call, requests, logged, result, rect, url, error>>

(***************************************************************************)
(* Bounds of the model.                                                    *)
(***************************************************************************)
MaxCoord == 2        \* coordinates of hand-built results range over 0..MaxCoord
MaxPoints == 2       \* length of a hand-built coords list
MaxSide == 2         \* image sides range over 1..MaxSide (plus the sample 40x50)
MaxFaces == 2        \* entries of a rectangle-list response
MaxAnnotations == 2  \* faceAnnotations per response entry
MaxResponses == 2    \* entries of data['responses']

None == <<>>
Some(v) == <<v>>

(***************************************************************************)
(* Strings.                                                                *)
(***************************************************************************)
DigitChars == <<"0", "1", "2", "3", "4", "5", "6", "7", "8", "9">>

RECURSIVE NatToStr(_)
NatToStr(n) ==
    IF n < 10 THEN <<DigitChars[n + 1]>>
    ELSE NatToStr(n \div 10) \o <<DigitChars[(n % 10) + 1]>>

\* '{}'.format(n) for an int n
IntToStr(n) == IF n < 0 THEN <<"-">> \o NatToStr(-n) ELSE NatToStr(n)

\* s.find(c): the first index (1-based) of character c in s, 0 when absent
RECURSIVE FindFrom(_, _, _)
FindFrom(s, c, i) ==
    IF i > Len(s) THEN 0
    ELSE IF s[i] = c THEN i
    ELSE FindFrom(s, c, i + 1)

Find(s, c) == FindFrom(s, c, 1)

Contains(s, c) == Find(s, c) # 0

Prefix(s, n) == SubSeq(s, 1, n)
Suffix(s, n) == SubSeq(s, n, Len(s))

\* s.split(c)
RECURSIVE Split(_, _)
Split(s, c) ==
    LET i == Find(s, c)
    IN  IF i = 0 THEN <<s>>
        ELSE <<Prefix(s, i - 1)>> \o Split(Suffix(s, i + 1), c)

\* sep.join(parts)
RECURSIVE Join(_, _)
Join(parts, sep) ==
    IF parts = <<>> THEN <<>>
    ELSE IF Len(parts) = 1 THEN parts[1]
    ELSE parts[1] \o sep \o Join(Tail(parts), sep)

\* is s somewhere inside t
IsInfix(s, t) ==
    \E i \in 1..(Len(t) - Len(s) + 1) : SubSeq(t, i, i + Len(s) - 1) = s

LowerCase(c) ==
    CASE c = "G" -> "g"
      [] c = "S" -> "s"
      [] c = "H" -> "h"
      [] c = "T" -> "t"
      [] c = "P" -> "p"
      [] OTHER -> c

Letters == {"a", "b", "c", "d", "e", "f", "g", "h", "i", "j", "k", "l", "m", "n",
            "o", "p", "q", "r", "s", "t", "u", "v", "w", "x", "y", "z",
            "G", "S", "H", "T", "P"}

SchemeChars == Letters \cup {"0", "1", "2", "3", "4", "5", "6", "7", "8", "9",
                             "+", "-", "."}

\* urllib.parse.urlparse(uri).scheme: the text before the first ':' when it
\* starts with a letter and holds scheme characters only, lower-cased; else ''
UrlScheme(uri) ==
    LET i == Find(uri, ":")
    IN  IF i > 1 /\ uri[1] \in Letters
                 /\ \A k \in 1..(i - 1) : uri[k] \in SchemeChars
        THEN [k \in 1..(i - 1) |-> LowerCase(uri[k])]
        ELSE <<>>

is_localfile(uri) == UrlScheme(uri) = <<>>

is_gcs_image_uri(uri) == UrlScheme(uri) = <<"g", "s">>

(***************************************************************************)
(* furl: a URL is a base (everything before '?') and an ordered list of    *)
(* query arguments <<key, value>>.                                         *)
(***************************************************************************)
\* percent-encoding of one character of a query key or value; ';' is
\* encoded (the doctests' %3B), the other characters in use are kept
QuoteChar(c) ==
    CASE c = ";" -> <<"%", "3", "B">>
      [] c = "|" -> <<"%", "7", "C">>
      [] c = " " -> <<"+">>
      [] OTHER -> <<c>>

RECURSIVE Quote(_)
Quote(s) == IF s = <<>> THEN <<>> ELSE QuoteChar(Head(s)) \o Quote(Tail(s))

RECURSIVE Unquote(_)
Unquote(s) ==
    IF s = <<>> THEN <<>>
    ELSE IF Len(s) >= 3 /\ Prefix(s, 3) = <<"%", "3", "B">>
         THEN <<";">> \o Unquote(Suffix(s, 4))
    ELSE IF Len(s) >= 3 /\ Prefix(s, 3) = <<"%", "7", "C">>
         THEN <<"|">> \o Unquote(Suffix(s, 4))
    ELSE IF Head(s) = "+" THEN <<" ">> \o Unquote(Tail(s))
    ELSE <<Head(s)>> \o Unquote(Tail(s))

\* one 'key=value' piece of a query string
ParseArg(piece) ==
    LET i == Find(piece, "=")
    IN  IF i = 0 THEN <<Unquote(piece), <<>> >>
        ELSE <<Unquote(Prefix(piece, i - 1)), Unquote(Suffix(piece, i + 1))>>

ParseQuery(q) ==
    LET pieces == SelectSeq(Split(q, "&"), LAMBDA p : p # <<>>)
    IN  [k \in 1..Len(pieces) |-> ParseArg(pieces[k])]

\* furl.furl(uri)
Furl(uri) ==
    LET i == Find(uri, "?")
    IN  IF i = 0 THEN [base |-> uri, args |-> <<>>]
        ELSE [base |-> Prefix(uri, i - 1), args |-> ParseQuery(Suffix(uri, i + 1))]

HasArg(args, key) == \E k \in 1..Len(args) : args[k][1] = key

FirstArg(args, key) == CHOOSE k \in 1..Len(args) :
    args[k][1] = key /\ \A j \in 1..(k - 1) : args[j][1] # key

\* furl_obj.args[key] = value: the first occurrence of key takes the value
\* in place and its other occurrences go; a new key is appended
SetArg(f, key, value) ==
    IF HasArg(f.args, key)
    THEN LET first == FirstArg(f.args, key)
             set == [k \in 1..Len(f.args) |->
                        IF k = first THEN <<key, value>>
                        ELSE IF f.args[k][1] = key THEN <<>>
                        ELSE f.args[k]]
         IN  [f EXCEPT !.args = SelectSeq(set, LAMBDA a : a # <<>>)]
    ELSE [f EXCEPT !.args = Append(f.args, <<key, value>>)]

\* furl_obj.url
FurlUrl(f) ==
    IF f.args = <<>> THEN f.base
    ELSE f.base \o <<"?">> \o
         Join([k \in 1..Len(f.args) |->
                  Quote(f.args[k][1]) \o <<"=">> \o Quote(f.args[k][2])], <<"&">>)

(***************************************************************************)
(* Literals of the source and sample inputs.                               *)
(***************************************************************************)
CropKey == <<"c","r","o","p">>
ResizeKey == <<"r","e","s","i","z","e">>
CompositeToKey == <<"c","o","m","p","o","s","i","t","e","-","t","o">>
Star == <<"*">>
StarDotStar == <<"*",".","*">>

ExampleJpg ==
    <<"h","t","t","p","s",":","/","/","e","x","a","m","p","l","e",".","c","o","m",
      "/","e","x","a","m","p","l","e",".","j","p","g">>
TestJpg ==
    <<"h","t","t","p","s",":","/","/","e","x","a","m","p","l","e",".","c","o","m",
      "/","t","e","s","t",".","j","p","g">>
GsUri == <<"g","s",":","/","/","b","/","x">>
GsUpperUri == <<"G","S",":","/","/","b","/","y">>
LocalPath == <<"a",".","j","p","g">>
QueryUri ==
    <<"h","t","t","p",":","/","/","h","/","i","?","v","=","1","&","c","r","o","p","=","0">>
BgUrl == <<"h","t","t","p",":","/","/","h","/","b","g">>

\* image locators given to the providers and to the encoder
Locators == {LocalPath, GsUri, GsUpperUri, TestJpg, QueryUri}

Coord(x, y) == [x |-> x, y |-> y]

\* the keyword arguments of build_uri, with their defaults
DefaultKwds ==
    [width |-> Star, height |-> Star, composite_to |-> StarDotStar,
     bg_url |-> None, bg_width |-> Star, bg_height |-> Star]

KwdsSet ==
    { DefaultKwds,
      [DefaultKwds EXCEPT !.width = <<"8">>, !.height = <<"6">>],
      [DefaultKwds EXCEPT !.bg_url = Some(BgUrl)],
      [DefaultKwds EXCEPT !.bg_url = Some(BgUrl), !.composite_to = <<"0",".","0">>,
                          !.bg_width = <<"4">>, !.bg_height = <<"3">>],
      [DefaultKwds EXCEPT !.bg_url = Some(<<>>), !.composite_to = <<"0",".","0">>] }

\* `if bg_url:` is false for None and for ''
Truthy(opt) == opt # None /\ opt[1] # <<>>

(***************************************************************************)
(* AkamaiCrop.                                                             *)
(***************************************************************************)
\* min(points) and max(points) of a non-empty list, by iteration
RECURSIVE PyMin(_)
PyMin(s) ==
    IF Len(s) = 1 THEN s[1]
    ELSE LET m == PyMin(Tail(s)) IN IF s[1] <= m THEN s[1] ELSE m

RECURSIVE PyMax(_)
PyMax(s) ==
    IF Len(s) = 1 THEN s[1]
    ELSE LET m == PyMax(Tail(s)) IN IF s[1] >= m THEN s[1] ELSE m

\* create_rect with a fault: the lower right corner takes the last point
create_rect_last(coords) ==
    LET x_points == [k \in 1..Len(coords) |-> coords[k].x]
        y_points == [k \in 1..Len(coords) |-> coords[k].y]
    IN  [start |-> Coord(PyMin(x_points), PyMin(y_points)),
         end |-> coords[Len(coords)]]

\* AkamaiCrop.create_rect on a non-empty list (min() of an empty list raises)
create_rect(coords) ==
    LET x_points == [k \in 1..Len(coords) |-> coords[k].x]
        y_points == [k \in 1..Len(coords) |-> coords[k].y]
    IN  [start |-> Coord(PyMin(x_points), PyMin(y_points)),
         end |-> Coord(PyMax(x_points), PyMax(y_points))]

\* crop_value with a fault: the height is end.y - start.x
crop_value_minX(start, end) ==
    IntToStr(end.x - start.x) \o <<":">> \o IntToStr(end.y - start.x) \o <<";">>
        \o IntToStr(start.x) \o <<",">> \o IntToStr(start.y)

\* '{}:{};{},{}'.format((end.x - start.x), (end.y - end.x), start.x, start.y)
crop_value(start, end) ==
    IntToStr(end.x - start.x) \o <<":">> \o IntToStr(end.y - end.x) \o <<";">>
        \o IntToStr(start.x) \o <<",">> \o IntToStr(start.y)

\* '{}:{}'.format(width, height)
resize_value(width, height) == width \o <<":">> \o height

\* AkamaiCrop.build_uri: akamai_url is read from furl_obj before
\* 'composite-to' is stored in it, so the store does not reach the result
build_uri(uri, start, end, kw) ==
    LET cropped == SetArg(Furl(uri), CropKey, crop_value(start, end))
        resized == SetArg(cropped, ResizeKey, resize_value(kw.width, kw.height))
        akamai_url == FurlUrl(resized)
        furl_obj == SetArg(resized, CompositeToKey, kw.composite_to)
        bg_furl_obj == SetArg(Furl(kw.bg_url[1]), ResizeKey,
                              resize_value(kw.bg_width, kw.bg_height))
    IN  IF Truthy(kw.bg_url)
        THEN akamai_url \o <<"|">> \o FurlUrl(bg_furl_obj)
        ELSE akamai_url

(***************************************************************************)
(* Exceptions: a type and the message it was built with.                   *)
(***************************************************************************)
Raise(type, message) == Some([type |-> type, message |-> message])

\* the type of the pending exception, "" when none is pending
ErrorType == IF error = None THEN "" ELSE error[1].type

(***************************************************************************)
(* Results (GoogleVisionAPIFaceDetectionResult, MSProjectoxfordDetection-  *)
(* Result, AllDetectionResult: uri, coords, data).                         *)
(***************************************************************************)
DetectionResult(cls, uri, coords, data) ==
    [cls |-> cls, uri |-> uri, coords |-> coords, data |-> data]

NoCall ==
    [op |-> "", uri |-> <<>>, kwds |-> DefaultKwds, io |-> "", data |-> None,
     content_type |-> <<>>, payload |-> None, response |-> None]

(***************************************************************************)
(* AllDetection and its factory.                                           *)
(***************************************************************************)
\* AllDetectionResultFactory.__call__
AllDetectionResultFactory(uri, image_size) ==
    DetectionResult("AllDetectionResult", uri,
        << Coord(0, 0),
           Coord(0, image_size[2]),
           Coord(image_size[1], 0),
           Coord(image_size[1], image_size[2]) >>,
        Some(image_size))

ImageSizes == ((1..MaxSide) \X (1..MaxSide)) \cup {<<40, 50>>}

\* what opening, fetching and decoding the image can come to
IoOutcomes == {"ok", "unreadable", "undecodable"}

Init ==
    /\ pc = "start"
    /\ call = NoCall
    /\ requests = 0
    /\ logged = 0
    /\ result = None
    /\ rect = None
    /\ url = None
    /\ error = None

\* AllDetection.__call__: the size comes from the local file or from the
\* body of one GET; open() and PIL.Image.open raise OSError, requests.get
\* raises a RequestException
AllDetectionCall(locator, io, image_size) ==
    /\ pc = "start"
    /\ call' = [NoCall EXCEPT !.op = "AllDetection", !.uri = locator, !.io = io,
                              !.data = Some(image_size)]
    /\ requests' = IF is_localfile(locator) THEN 0 ELSE 1
    /\ logged' = 0
    /\ rect' = None
    /\ url' = None
    /\ IF io = "ok"
       THEN /\ result' = Some(AllDetectionResultFactory(locator, image_size))
            /\ error' = None
            /\ pc' = "result"
       ELSE /\ result' = None
            /\ error' = IF io = "unreadable" /\ ~is_localfile(locator)
                        THEN Raise("RequestException", <<>>)
                        ELSE Raise("OSError", <<>>)
            /\ pc' = "raised"

(***************************************************************************)
(* The encoder's callers.                                                  *)
(***************************************************************************)
Points == {Coord(x, y) : x \in 0..MaxCoord, y \in 0..MaxCoord}

RECURSIVE SeqsUpTo(_, _)
SeqsUpTo(S, n) ==
    IF n = 0 THEN {<<>>}
    ELSE LET shorter == SeqsUpTo(S, n - 1)
         IN  shorter \cup {Append(s, e) : s \in {t \in shorter : Len(t) = n - 1}, e \in S}

DoctestCoords == <<Coord(20, 30), Coord(25, 24), Coord(29, 21)>>

CoordLists ==
    SeqsUpTo(Points, MaxPoints)
        \cup {DoctestCoords, <<Coord(-3, 4), Coord(2, -1), Coord(2, -1)>>}

\* a result filled in by hand, as the doctest of AkamaiCrop.__call__ does
NewResult(uri, coords) ==
    /\ pc = "start"
    /\ call' = [NoCall EXCEPT !.op = "NewResult", !.uri = uri]
    /\ result' = Some(DetectionResult("GoogleVisionAPIFaceDetectionResult",
                                      uri, coords, None))
    /\ pc' = "result"
    /\ requests' = 0
    /\ logged' = 0
    /\ rect' = None
    /\ url' = None
    /\ error' = None

\* CropCall with a fault: an empty list is given the rectangle (0,0)-(0,0)
CropCall_degenerate(kw) ==
    /\ pc \in {"result", "cropped"}
    /\ result # None
    /\ call' = [call EXCEPT !.kwds = kw]
    /\ pc' = "cropped"
    /\ LET r == IF result[1].coords = <<>>
                THEN [start |-> Coord(0, 0), end |-> Coord(0, 0)]
                ELSE create_rect(result[1].coords)
       IN  /\ rect' = Some(r)
           /\ url' = Some(build_uri(result[1].uri, r.start, r.end, kw))
           /\ error' = None
    /\ UNCHANGED <<requests, logged, result>>

\* AkamaiCrop.__call__(detection_result, **kwds)
CropCall(kw) ==
    /\ pc \in {"result", "cropped"}
    /\ result # None
    /\ call' = [call EXCEPT !.kwds = kw]
    /\ pc' = "cropped"
    /\ IF result[1].coords = <<>>
       THEN \* min([]) raises ValueError
            /\ rect' = None
            /\ url' = None
            /\ error' = Raise("ValueError", <<>>)
       ELSE LET r == create_rect(result[1].coords)
            IN  /\ rect' = Some(r)
                /\ url' = Some(build_uri(result[1].uri, r.start, r.end, kw))
                /\ error' = None
    /\ UNCHANGED <<requests, logged, result>>

\* AkamaiCrop.build_uri called on its own, as its doctest does
BuildUriCall(uri, start, end, kw) ==
    /\ pc = "start"
    /\ call' = [NoCall EXCEPT !.op = "build_uri", !.uri = uri, !.kwds = kw]
    /\ pc' = "built"
    /\ result' = None
    /\ rect' = Some([start |-> start, end |-> end])
    /\ url' = Some(build_uri(uri, start, end, kw))
    /\ error' = None
    /\ requests' = 0
    /\ logged' = 0

CornerPairs == (Points \X Points) \cup {<<Coord(10, 20), Coord(30, 40)>>}

NextCrop ==
    \/ \E coords \in CoordLists : NewResult(ExampleJpg, coords)
    \/ \E coords \in SeqsUpTo(Points, 1) \cup {DoctestCoords} : NewResult(QueryUri, coords)
    \/ \E locator \in {LocalPath, TestJpg}, io \in IoOutcomes, size \in ImageSizes :
          AllDetectionCall(locator, io, size)
    \/ \E kw \in KwdsSet : CropCall(kw)
    \/ \E uri \in {TestJpg, LocalPath}, se \in CornerPairs, kw \in KwdsSet :
          BuildUriCall(uri, se[1], se[2], kw)

SpecCrop == Init /\ [][NextCrop]_vars

(***************************************************************************)
(* Reading a returned URL back.                                            *)
(***************************************************************************)
\* the part of a returned string before its first '|'
ForegroundPart(u) == IF Contains(u, "|") THEN Prefix(u, Find(u, "|") - 1) ELSE u

\* the part after the first '|'
BackgroundPart(u) == Suffix(u, Find(u, "|") + 1)

\* the value of query argument key in URL u: <<>> or <<value>>
ArgValue(u, key) ==
    LET args == Furl(u).args
    IN  IF HasArg(args, key) THEN Some(args[FirstArg(args, key)][2]) ELSE None

MinOf(S) == CHOOSE m \in S : \A v \in S : m <= v
MaxOf(S) == CHOOSE m \in S : \A v \in S : m >= v
XsOf(coords) == {coords[k].x : k \in 1..Len(coords)}
YsOf(coords) == {coords[k].y : k \in 1..Len(coords)}

Cropped == pc = "cropped" /\ result # None /\ result[1].coords # <<>>

(***************************************************************************)
(* C1: for every non-empty list of points create_rect returns (start, end) *)
(* with start = (min x, min y) and end = (max x, max y): every point lies  *)
(* between them on both axes and each of the four bounds is attained by a  *)
(* point, whatever the order or duplication of the points.                 *)
(***************************************************************************)
C1_BoundingRect ==
    Cropped =>
        /\ rect # None
        /\ LET cs == result[1].coords
               r == rect[1]
           IN  /\ \A k \in 1..Len(cs) :
                     /\ r.start.x <= cs[k].x /\ cs[k].x <= r.end.x
                     /\ r.start.y <= cs[k].y /\ cs[k].y <= r.end.y
               /\ \E k \in 1..Len(cs) : cs[k].x = r.start.x
               /\ \E k \in 1..Len(cs) : cs[k].y = r.start.y
               /\ \E k \in 1..Len(cs) : cs[k].x = r.end.x
               /\ \E k \in 1..Len(cs) : cs[k].y = r.end.y

\* an unordered list with a duplicate, whose corners are no point of the list
C1_Witness ==
    /\ Cropped
    /\ result[1].coords = <<Coord(-3, 4), Coord(2, -1), Coord(2, -1)>>
    /\ rect = Some([start |-> Coord(-3, -1), end |-> Coord(2, 4)])

C3_Doctests ==
    /\ (pc = "built" /\ call.kwds = DefaultKwds) =>
           url = Some(call.uri \o <<"?">> \o CropKey \o <<"=">>
                      \o IntToStr(rect[1].end.x) \o <<":">> \o IntToStr(rect[1].end.y)
                      \o <<"%", "3", "B">>
                      \o IntToStr(rect[1].start.x) \o <<",">> \o IntToStr(rect[1].start.y))
    /\ (pc = "built" /\ call.kwds = DefaultKwds /\ call.uri = TestJpg
           /\ rect = Some([start |-> Coord(10, 20), end |-> Coord(30, 40)])) =>
           url = Some(TestJpg \o <<"?","c","r","o","p","=","3","0",":","4","0",
                                   "%","3","B","1","0",",","2","0">>)
    /\ (Cropped /\ call.kwds = DefaultKwds /\ result[1].uri = ExampleJpg
           /\ result[1].coords = DoctestCoords) =>
           url = Some(ExampleJpg \o <<"?","c","r","o","p","=","2","9",":","3","0",
                                      "%","3","B","2","0",",","2","1">>)

(***************************************************************************)
(* C4: when a background URL is supplied the returned string is            *)
(* foregroundURL + "|" + backgroundURL, the foreground carrying            *)
(* composite-to (the caller's value, "*.*" by default) besides crop and    *)
(* resize, the background carrying resize = "{bg_width}:{bg_height}";      *)
(* with no background URL the result has no "|" and no composite-to.       *)
(***************************************************************************)
C4_Composite ==
    (pc \in {"cropped", "built"} /\ url # None) =>
        LET kw == call.kwds
            fg == ForegroundPart(url[1])
        IN  IF Truthy(kw.bg_url)
            THEN /\ Contains(url[1], "|")
                 /\ ArgValue(fg, CompositeToKey) = Some(kw.composite_to)
                 /\ ArgValue(fg, CropKey) # None
                 /\ ArgValue(fg, ResizeKey) = Some(resize_value(kw.width, kw.height))
                 /\ BackgroundPart(url[1]) =
                        kw.bg_url[1] \o <<"?">> \o ResizeKey \o <<"=">>
                            \o resize_value(kw.bg_width, kw.bg_height)
            ELSE /\ ~Contains(url[1], "|")
                 /\ ArgValue(url[1], CompositeToKey) = None

(***************************************************************************)
(* C5 as stated: encoding fails with the dedicated EmptyPointsError if and *)
(* only if the point list is empty, and then no URL is returned.           *)
(***************************************************************************)
C5_EmptyPointsError ==
    (pc = "cropped") =>
        /\ (ErrorType = "EmptyPointsError") <=> (result[1].coords = <<>>)
        /\ (result[1].coords = <<>>) => url = None

(***************************************************************************)
(* C5 amended: encoding fails if and only if the point list is empty; the  *)
(* failure is Python's built-in ValueError raised by min() of an empty     *)
(* list (the code has no EmptyPointsError), no URL and no rectangle is     *)
(* returned, and that type is not the MSProjectoxfordDetectionError or the *)
(* transport error a failing backend raises; a non-empty list gives a URL  *)
(* and no error.                                                           *)
(***************************************************************************)
C5_ValueErrorIffEmpty ==
    (pc = "cropped") =>
        /\ (error # None) <=> (result[1].coords = <<>>)
        /\ (result[1].coords = <<>>) =>
               /\ ErrorType = "ValueError"
               /\ ErrorType \notin {"MSProjectoxfordDetectionError", "RequestException"}
               /\ url = None
               /\ rect = None
        /\ (result[1].coords # <<>>) => url # None

C5_Witness ==
    /\ pc = "cropped"
    /\ result[1].coords = <<>>
    /\ ErrorType = "ValueError"
    /\ url = None

(***************************************************************************)
(* C6: for an image of width w and height h, AllDetection followed by the  *)
(* encoder gives the points [(0,0),(0,h),(w,0),(w,h)] in that order and a  *)
(* crop parameter covering the whole image, "w:h;0,0".                     *)
(***************************************************************************)
C6_WholeImage ==
    (pc = "cropped" /\ result[1].cls = "AllDetectionResult") =>
        LET w == result[1].data[1][1]
            h == result[1].data[1][2]
        IN  /\ result[1].coords = <<Coord(0, 0), Coord(0, h), Coord(w, 0), Coord(w, h)>>
            /\ url # None
            /\ ArgValue(ForegroundPart(url[1]), CropKey) =
                   Some(IntToStr(w) \o <<":">> \o IntToStr(h) \o <<";", "0", ",", "0">>)

(***************************************************************************)
(* MSProjectoxfordDetection and its factory.                               *)
(***************************************************************************)
HTTP_OK == 200

\* an entry of the response list; 'faceRectangle' may be missing from an
\* entry of a malformed response
FaceRect(left, top, width, height) ==
    [left |-> left, top |-> top, width |-> width, height |-> height]

FaceRects == {FaceRect(5, 6, 10, 20), FaceRect(0, 0, 1, 2), FaceRect(7, 3, 0, 0)}

FaceEntries ==
    {[faceRectangle |-> Some(r)] : r \in FaceRects} \cup {[faceRectangle |-> None]}

FaceLists == SeqsUpTo(FaceEntries, MaxFaces)

WellFormedFaces(data) == \A k \in 1..Len(data) : data[k].faceRectangle # None

\* MS_get_coords with a fault: the last two corners of a rectangle swapped
RECURSIVE MS_get_coords_swapped(_)
MS_get_coords_swapped(data) ==
    IF data = <<>> THEN <<>>
    ELSE LET rect0 == Head(data).faceRectangle[1]
         IN  << Coord(rect0.left, rect0.top),
                Coord(rect0.left, rect0.top + rect0.height),
                Coord(rect0.left + rect0.width, rect0.top),
                Coord(rect0.left + rect0.width, rect0.top + rect0.height) >>
             \o MS_get_coords_swapped(Tail(data))

\* MSProjectoxfordDetectionResultFactory.get_coords, on entries that all
\* have a 'faceRectangle'
RECURSIVE MS_get_coords(_)
MS_get_coords(data) ==
    IF data = <<>> THEN <<>>
    ELSE LET rect0 == Head(data).faceRectangle[1]
         IN  << Coord(rect0.left, rect0.top),
                Coord(rect0.left, rect0.top + rect0.height),
                Coord(rect0.left + rect0.width, rect0.top + rect0.height),
                Coord(rect0.left + rect0.width, rect0.top) >>
             \o MS_get_coords(Tail(data))

\* MSProjectoxfordDetectionResultFactory.__call__
MSProjectoxfordDetectionResultFactory(uri, data) ==
    DetectionResult("MSProjectoxfordDetectionResult", uri, MS_get_coords(data), Some(data))

\* json.dumps({'url': url})
JsonUrl(u) == <<"{","\"","u","r","l","\"",":"," ","\"">> \o u \o <<"\"","}">>

\* the bytes of the local image file, which the model does not look into
FileBytes == <<"<", "i", "m", "a", "g", "e", ">">>

OctetStream ==
    <<"a","p","p","l","i","c","a","t","i","o","n","/","o","c","t","e","t","-",
      "s","t","r","e","a","m">>
ApplicationJson == <<"a","p","p","l","i","c","a","t","i","o","n","/","j","s","o","n">>

\* '{}'.format(b) of a bytes object b
BytesRepr(b) == <<"b", "'">> \o b \o <<"'">>

DetectionFailedMessage(res) ==
    <<"d","e","t","e","c","t","i","o","n"," ","f","a","i","l","e","d",":"," ",
      "s","t","a","t","u","s","=">> \o IntToStr(res.status_code)
        \o <<","," ","r","e","a","s","o","n","=">> \o res.reason
        \o <<","," ","c","o","n","t","e","n","t","=">> \o BytesRepr(res.content)

\* an HTTP response: its status line, its body, and what res.json() gives
\* (None: the body is no JSON and res.json() raises ValueError)
Response(status_code, reason, content, json) ==
    [status_code |-> status_code, reason |-> reason, content |-> content, json |-> json]

JsonBody == <<"[", ".", ".", ".", "]">>

MSResponses ==
    {Response(HTTP_OK, <<"O","K">>, JsonBody, Some(data)) : data \in FaceLists}
    \cup { Response(HTTP_OK, <<"O","K">>, <<"<","h","t","m","l",">">>, None),
           Response(202, <<"A","c","c","e","p","t","e","d">>, JsonBody,
                    Some(<<[faceRectangle |-> Some(FaceRect(5, 6, 10, 20))]>>)),
           Response(401, <<"U","n","a","u","t","h","o","r","i","z","e","d">>,
                    <<"d","e","n","i","e","d">>, None),
           Response(503, <<>>, <<>>, None) }

\* ms_request with a fault: only the 4xx and 5xx statuses are failures
ms_request_lenient(res) ==
    IF res.status_code >= 400
    THEN [error |-> Raise("MSProjectoxfordDetectionError", DetectionFailedMessage(res)),
          data |-> None]
    ELSE IF res.json = None
    THEN [error |-> Raise("ValueError", <<>>), data |-> None]
    ELSE [error |-> None, data |-> res.json]

\* MSProjectoxfordDetection.request once requests.post has returned res
ms_request(res) ==
    IF res.status_code # HTTP_OK
    THEN [error |-> Raise("MSProjectoxfordDetectionError", DetectionFailedMessage(res)),
          data |-> None]
    ELSE IF res.json = None
    THEN [error |-> Raise("ValueError", <<>>), data |-> None]
    ELSE [error |-> None, data |-> res.json]

\* MSProjectoxfordDetection.__call__ up to the request: the headers and the
\* payload; open() of a local file that cannot be read raises OSError
MSCall(locator, io) ==
    /\ pc = "start"
    /\ LET is_local == is_localfile(locator)
       IN  /\ call' = [NoCall EXCEPT
                          !.op = "MSProjectoxfordDetection", !.uri = locator, !.io = io,
                          !.content_type = IF is_local THEN OctetStream ELSE ApplicationJson,
                          !.payload = IF is_local
                                      THEN (IF io = "ok" THEN Some(FileBytes) ELSE None)
                                      ELSE Some(JsonUrl(locator))]
           /\ IF is_local /\ io # "ok"
              THEN /\ pc' = "raised"
                   /\ error' = Raise("OSError", <<>>)
              ELSE /\ pc' = "ms_post"
                   /\ error' = None
    /\ requests' = 0
    /\ logged' = 0
    /\ result' = None
    /\ rect' = None
    /\ url' = None

\* requests.post returns res; the rest of request and of __call__ follows
MSPost(res) ==
    /\ pc = "ms_post"
    /\ requests' = requests + 1
    /\ call' = [call EXCEPT !.response = Some(res)]
    /\ LET got == ms_request(res)
       IN  IF got.error # None
           THEN /\ error' = got.error
                /\ result' = None
                /\ pc' = "raised"
           ELSE IF ~WellFormedFaces(got.data[1])
           THEN \* response['faceRectangle'] raises KeyError
                /\ error' = Raise("KeyError", <<>>)
                /\ result' = None
                /\ pc' = "raised"
           ELSE /\ error' = None
                /\ result' = Some(MSProjectoxfordDetectionResultFactory(call.uri, got.data[1]))
                /\ pc' = "result"
    /\ UNCHANGED <<logged, rect, url>>

\* requests.post raises: no response arrives
MSPostFails ==
    /\ pc = "ms_post"
    /\ requests' = requests + 1
    /\ error' = Raise("RequestException", <<>>)
    /\ pc' = "raised"
    /\ UNCHANGED <<call, logged, result, rect, url>>

NextMS ==
    \/ \E locator \in Locators, io \in {"ok", "unreadable"} : MSCall(locator, io)
    \/ \E res \in MSResponses : MSPost(res)
    \/ MSPostFails
    \/ \E kw \in {DefaultKwds} : CropCall(kw)

SpecMS == Init /\ [][NextMS]_vars

MSResult == result # None /\ result[1].cls = "MSProjectoxfordDetectionResult"

(***************************************************************************)
(* C7: the normalisation of a response of n rectangles {left, top, width,  *)
(* height} yields exactly 4n points, the i-th rectangle giving, at         *)
(* positions 4i..4i+3 (from 0), (left,top), (left,top+height),             *)
(* (left+width,top+height), (left+width,top), rectangles in response       *)
(* order; an empty response yields no point.                               *)
(***************************************************************************)
C7_FourCorners ==
    MSResult =>
        LET data == result[1].data[1]
            cs == result[1].coords
        IN  /\ Len(cs) = 4 * Len(data)
            /\ \A i \in 1..Len(data) :
                  LET r == data[i].faceRectangle[1]
                      b == 4 * (i - 1)
                  IN  /\ cs[b + 1] = Coord(r.left, r.top)
                      /\ cs[b + 2] = Coord(r.left, r.top + r.height)
                      /\ cs[b + 3] = Coord(r.left + r.width, r.top + r.height)
                      /\ cs[b + 4] = Coord(r.left + r.width, r.top)

\* the rectangle {left:5, top:6, width:10, height:20}, second of two
C7_Witness ==
    /\ MSResult
    /\ result[1].data[1] = << [faceRectangle |-> Some(FaceRect(0, 0, 1, 2))],
                              [faceRectangle |-> Some(FaceRect(5, 6, 10, 20))] >>
    /\ SubSeq(result[1].coords, 5, 8) =
           <<Coord(5, 6), Coord(5, 26), Coord(15, 26), Coord(15, 6)>>

MSEnded == call.op = "MSProjectoxfordDetection" /\ pc \in {"raised", "result"}

(***************************************************************************)
(* C9 as stated: every detect invocation issues exactly one request; a     *)
(* status other than 200 ends it in a detection error carrying the status  *)
(* code, the reason and the body, with no result; status 200 ends it with  *)
(* a result built from the response and no error.                          *)
(***************************************************************************)
C9_ExactlyOneRequest ==
    MSEnded =>
        /\ requests = 1
        /\ (call.response # None /\ call.response[1].status_code # HTTP_OK) =>
               /\ ErrorType = "MSProjectoxfordDetectionError"
               /\ IsInfix(IntToStr(call.response[1].status_code), error[1].message)
               /\ IsInfix(call.response[1].reason, error[1].message)
               /\ IsInfix(call.response[1].content, error[1].message)
               /\ result = None
        /\ (call.response # None /\ call.response[1].status_code = HTTP_OK) =>
               /\ error = None
               /\ result # None
               /\ result[1].uri = call.uri
               /\ result[1].data = call.response[1].json

(***************************************************************************)
(* C9 amended: a detect invocation issues at most one request, and exactly *)
(* one once its payload is built (a remote locator, or a local file that   *)
(* could be read; an unreadable file ends it before any request); a status *)
(* other than 200 ends it in a MSProjectoxfordDetectionError carrying the  *)
(* status code, the reason and the body, with no result and no second      *)
(* request; status 200 with a body that parses to a list of faceRectangle  *)
(* entries ends it with a result built from that response and no error.    *)
(***************************************************************************)
C9_AtMostOneRequest ==
    (call.op = "MSProjectoxfordDetection") =>
        /\ requests <= 1
        /\ MSEnded =>
            /\ (requests = 1) <=> (call.payload # None)
            /\ (requests = 0) => (ErrorType = "OSError" /\ result = None)
            /\ (call.response # None /\ call.response[1].status_code # HTTP_OK) =>
                   /\ ErrorType = "MSProjectoxfordDetectionError"
                   /\ IsInfix(IntToStr(call.response[1].status_code), error[1].message)
                   /\ IsInfix(call.response[1].reason, error[1].message)
                   /\ IsInfix(call.response[1].content, error[1].message)
                   /\ result = None
            /\ (/\ call.response # None
                /\ call.response[1].status_code = HTTP_OK
                /\ call.response[1].json # None
                /\ WellFormedFaces(call.response[1].json[1])) =>
                   /\ error = None
                   /\ result # None
                   /\ result[1].uri = call.uri
                   /\ result[1].data = call.response[1].json
                   /\ Len(result[1].coords) = 4 * Len(call.response[1].json[1])

\* a 401 answer: one request, a detection error, no result
C9_Witness ==
    /\ MSEnded
    /\ requests = 1
    /\ call.response # None
    /\ call.response[1].status_code = 401
    /\ ErrorType = "MSProjectoxfordDetectionError"
    /\ result = None

(***************************************************************************)
(* GoogleVisionAPIFaceDetection and its factory.                           *)
(***************************************************************************)
FACE_MAX_RESULTS == 4

\* a vertex is a dict whose 'x' and 'y' may each be missing
Vertex(x, y) == [x |-> x, y |-> y]

Annotation(fd, bp) ==
    [fdBoundingPoly |-> [vertices |-> fd], boundingPoly |-> [vertices |-> bp]]

Annotations ==
    { Annotation(<<Vertex(Some(1), Some(2))>>, <<Vertex(Some(3), Some(4))>>),
      Annotation(<<Vertex(Some(5), None), Vertex(None, Some(6)), Vertex(None, None)>>,
                 <<>>) }

\* an entry of data['responses']; 'faceAnnotations' may be missing
ResponseEntries ==
    {[faceAnnotations |-> Some(l)] : l \in SeqsUpTo(Annotations, MaxAnnotations)}
        \cup {[faceAnnotations |-> None]}

\* the annotate response; 'responses' may be missing
GVData ==
    {[responses |-> Some(l)] : l \in SeqsUpTo(ResponseEntries, MaxResponses)}
        \cup {[responses |-> None]}

\* dict.get(key, default)
Get(opt, default) == IF opt = None THEN default ELSE opt[1]

\* for vertice in annotation[name]['vertices']:
\*     yield Coord(vertice.get('x', 0), vertice.get('y', 0))
RECURSIVE PolyCoords(_)
PolyCoords(vertices) ==
    IF vertices = <<>> THEN <<>>
    ELSE <<Coord(Get(Head(vertices).x, 0), Get(Head(vertices).y, 0))>>
             \o PolyCoords(Tail(vertices))

\* AnnotationCoords with a fault: boundingPoly comes before fdBoundingPoly
AnnotationCoords_reversed(annotation) ==
    PolyCoords(annotation.boundingPoly.vertices)
        \o PolyCoords(annotation.fdBoundingPoly.vertices)

\* for name in ['fdBoundingPoly', 'boundingPoly']: for vertice in ...
AnnotationCoords(annotation) ==
    PolyCoords(annotation.fdBoundingPoly.vertices)
        \o PolyCoords(annotation.boundingPoly.vertices)

RECURSIVE AnnotationsCoords(_)
AnnotationsCoords(annotations) ==
    IF annotations = <<>> THEN <<>>
    ELSE AnnotationCoords(Head(annotations)) \o AnnotationsCoords(Tail(annotations))

RECURSIVE ResponsesCoords(_)
ResponsesCoords(responses) ==
    IF responses = <<>> THEN <<>>
    ELSE AnnotationsCoords(Get(Head(responses).faceAnnotations, <<>>))
             \o ResponsesCoords(Tail(responses))

\* GoogleVisionAPIFaceDetectionResultFactory.get_coords
GV_get_coords(data) == ResponsesCoords(Get(data.responses, <<>>))

\* GoogleVisionAPIFaceDetectionResultFactory.__call__
GoogleVisionAPIFaceDetectionResultFactory(uri, data) ==
    DetectionResult("GoogleVisionAPIFaceDetectionResult", uri, GV_get_coords(data),
                    Some(data))

\* the factory called on a response, as GoogleVisionAPIFaceDetection.__call__
\* does with what request returns
GVFactoryCall(uri, data) ==
    /\ pc = "start"
    /\ call' = [NoCall EXCEPT !.op = "GoogleVisionAPIFaceDetectionResultFactory",
                              !.uri = uri, !.data = Some(data)]
    /\ result' = Some(GoogleVisionAPIFaceDetectionResultFactory(uri, data))
    /\ pc' = "result"
    /\ requests' = 0
    /\ logged' = 0
    /\ rect' = None
    /\ url' = None
    /\ error' = None

\* GoogleVisionAPIFaceDetection.__call__ up to the request: build_payload;
\* get_encoded_image raises OSError on a local file that cannot be read,
\* build_payload_for_url logs an error for a URL that is not gs:// and
\* goes on
GVCall(locator, io) ==
    /\ pc = "start"
    /\ LET is_local == is_localfile(locator)
       IN  /\ call' = [NoCall EXCEPT
                          !.op = "GoogleVisionAPIFaceDetection", !.uri = locator, !.io = io,
                          !.payload =
                              IF is_local
                              THEN (IF io = "ok"
                                    THEN Some([image |-> "content", gcsImageUri |-> None,
                                               maxResults |-> FACE_MAX_RESULTS])
                                    ELSE None)
                              ELSE Some([image |-> "source", gcsImageUri |-> Some(locator),
                                         maxResults |-> FACE_MAX_RESULTS])]
           /\ logged' = IF ~is_local /\ ~is_gcs_image_uri(locator) THEN 1 ELSE 0
           /\ IF is_local /\ io # "ok"
              THEN /\ pc' = "raised"
                   /\ error' = Raise("OSError", <<>>)
              ELSE /\ pc' = "gv_request"
                   /\ error' = None
    /\ requests' = 0
    /\ result' = None
    /\ rect' = None
    /\ url' = None

\* the attributes of the request object image_api.annotate(body=payload)
\* returns (googleapiclient.http.HttpRequest)
HttpRequestAttributes ==
    {"execute", "add_response_callback", "next_chunk", "to_json", "from_json",
     "uri", "method", "body", "headers"}

\* what the backend would answer to the annotate request
GVAnswers ==
    {[ok |-> TRUE, data |-> Some(d)] : d \in {g \in GVData : Len(Get(g.responses, <<>>)) <= 1}}
        \cup {[ok |-> FALSE, data |-> None]}

\* GoogleVisionAPIFaceDetection.request and the rest of __call__:
\* `request.exexute()` looks up an attribute the request object does not
\* have, which raises AttributeError before anything is sent
GVRequest(answer) ==
    /\ pc = "gv_request"
    /\ call' = [call EXCEPT !.response = Some(answer)]
    /\ IF "exexute" \in HttpRequestAttributes
       THEN /\ requests' = requests + 1
            /\ IF answer.ok
               THEN /\ result' = Some(GoogleVisionAPIFaceDetectionResultFactory(
                                          call.uri, answer.data[1]))
                    /\ error' = None
                    /\ pc' = "result"
               ELSE /\ result' = None
                    /\ error' = Raise("HttpError", <<>>)
                    /\ pc' = "raised"
       ELSE /\ requests' = requests
            /\ result' = None
            /\ error' = Raise("AttributeError", <<>>)
            /\ pc' = "raised"
    /\ UNCHANGED <<logged, rect, url>>

NextGV ==
    \/ \E data \in GVData : GVFactoryCall(GsUri, data)
    \/ \E data \in {g \in GVData : Len(Get(g.responses, <<>>)) <= 1} :
          GVFactoryCall(LocalPath, data)
    \/ \E locator \in Locators, io \in {"ok", "unreadable"} : GVCall(locator, io)
    \/ \E answer \in GVAnswers : GVRequest(answer)

SpecGV == Init /\ [][NextGV]_vars

(***************************************************************************)
(* The addresses <<response, annotation, polygon, vertex>> of the vertices *)
(* of a response (polygon 1 is fdBoundingPoly, 2 is boundingPoly), and     *)
(* their lexicographic order.                                              *)
(***************************************************************************)
PolyOf(annotation, n) ==
    IF n = 1 THEN annotation.fdBoundingPoly.vertices
    ELSE annotation.boundingPoly.vertices

Addresses(data) ==
    LET rs == Get(data.responses, <<>>)
    IN  UNION { UNION { UNION { {<<r, a, n, v>> :
                    v \in 1..Len(PolyOf(Get(rs[r].faceAnnotations, <<>>)[a], n))} :
                  n \in {1, 2}} :
                a \in 1..Len(Get(rs[r].faceAnnotations, <<>>))} :
              r \in 1..Len(rs)}

Before(p, q) ==
    \E k \in 1..4 : p[k] < q[k] /\ \A j \in 1..(k - 1) : p[j] = q[j]

VertexAt(data, p) ==
    PolyOf(data.responses[1][p[1]].faceAnnotations[1][p[2]], p[3])[p[4]]

GVFactoryResult ==
    /\ result # None
    /\ result[1].cls = "GoogleVisionAPIFaceDetectionResult"
    /\ result[1].data # None

(***************************************************************************)
(* C8: the normalisation flattens, for every response entry in order, for  *)
(* every face annotation in order, first the fdBoundingPoly vertices and   *)
(* then the boundingPoly vertices into one list, nothing dropped or        *)
(* merged: there are as many points as vertices, the point of a vertex     *)
(* stands at the rank of the vertex in that order and has the vertex's x   *)
(* and y, 0 for a missing one; no responses or no faceAnnotations give an  *)
(* empty list.                                                             *)
(***************************************************************************)
C8_Flattened ==
    GVFactoryResult =>
        LET data == result[1].data[1]
            cs == result[1].coords
            A == Addresses(data)
        IN  /\ Len(cs) = Cardinality(A)
            /\ \A p \in A :
                  LET rank == 1 + Cardinality({q \in A : Before(q, p)})
                      vertex == VertexAt(data, p)
                  IN  /\ cs[rank].x = (IF vertex.x = None THEN 0 ELSE vertex.x[1])
                      /\ cs[rank].y = (IF vertex.y = None THEN 0 ELSE vertex.y[1])
            /\ (data.responses = None) => cs = <<>>

\* two response entries, the first without faceAnnotations, the second with
\* both sample annotations: the spec's [(1,2),(3,4)] and the defaults
C8_Witness ==
    /\ GVFactoryResult
    /\ Len(Get(result[1].data[1].responses, <<>>)) = 2
    /\ result[1].data[1].responses[1][1].faceAnnotations = None
    /\ result[1].coords =
           <<Coord(1, 2), Coord(3, 4), Coord(5, 0), Coord(0, 6), Coord(0, 0)>>

(***************************************************************************)
(* C10: a detect(locator) invocation of the Vision provider whose backend  *)
(* answers successfully ends by returning a result whose uri is the        *)
(* locator and whose points are the normalisation of the answer, for local *)
(* and remote (gs or, with a logged message, other) locators.              *)
(***************************************************************************)
C10_ReachesNormalisation ==
    (/\ call.op = "GoogleVisionAPIFaceDetection"
     /\ pc \in {"raised", "result"}
     /\ call.payload # None
     /\ call.response # None
     /\ call.response[1].ok) =>
        /\ error = None
        /\ result # None
        /\ result[1].uri = call.uri
        /\ result[1].coords = GV_get_coords(call.response[1].data[1])

==========================================================================
